---- MODULE Spec2Model ----
(***************************************************************************)
(* Model of the RSS worker (backend_worker.py), its scorer boundary        *)
(* (ai_processor.py) and the control panel (app_frontend.py) that shares   *)
(* status.json and database.json with it.                                  *)
(*                                                                         *)
(* Texts are sequences of one-character strings, so that str.strip() and   *)
(* slicing are computed rather than assumed.  A datetime is an instant t   *)
(* (hours, UTC) with a UTC offset off; an ISO-8601 string is the local     *)
(* wall-clock reading together with the offset.                            *)
(***************************************************************************)
EXTENDS Integers, Sequences, FiniteSets, TLC

(* ---------------------------- bounds ----------------------------------- *)
MaxCycles == 3       \* run_task invocations explored
MaxFeedLen == 1      \* entries per feed payload
MaxStreak == 5       \* consecutive polls counted by the poll history
MaxClock == 1        \* hours the clock may advance
MaxProbeLen == 2     \* entries of a payload given to _fetch_rss_items alone
MaxMergeLen == 3     \* items given to the deduplication alone

(* ------------------------ program constants ---------------------------- *)
DEFAULT_CUTOFF_HOURS == 24
SCORE_THRESHOLD == 80
SUMMARY_LIMIT == 500
\* the clock reading when the worker starts: the default cutoff is then hour 0
NowStart == DEFAULT_CUTOFF_HOURS

(* ------------------------------ texts ---------------------------------- *)
IsSpace(c) == c = " "

RECURSIVE LStrip(_)
LStrip(s) == IF s # <<>> /\ IsSpace(Head(s)) THEN LStrip(Tail(s)) ELSE s

RECURSIVE RStrip(_)
RStrip(s) ==
    IF s # <<>> /\ IsSpace(s[Len(s)]) THEN RStrip(SubSeq(s, 1, Len(s) - 1)) ELSE s

\* str.strip()
Strip(s) == RStrip(LStrip(s))

\* s[:n]
Truncate(s, n) == SubSeq(s, 1, IF Len(s) < n THEN Len(s) ELSE n)

(* ---------------------------- datetimes -------------------------------- *)
NoneDt == [some |-> FALSE, t |-> 0, off |-> 0]
Dt(t, off) == [some |-> TRUE, t |-> t, off |-> off]

\* JSON null / a missing string
NullStr == [null |-> TRUE, local |-> 0, off |-> 0]

\* datetime.isoformat(): local wall-clock reading and offset
isoformat(dt) == [null |-> FALSE, local |-> dt.t + dt.off, off |-> dt.off]

\* datetime.fromisoformat() of such a string
fromisoformat(s) == Dt(s.local - s.off, s.off)

\* raw date texts of a feed: absent/blank, not RFC-2822, RFC-2822 with a
\* zone, RFC-2822 without a zone (or with -0000)
BlankDate == [kind |-> "blank", local |-> 0, off |-> 0]
BadDate == [kind |-> "bad", local |-> 0, off |-> 0]
RfcDate(t, off) == [kind |-> "rfc", local |-> t + off, off |-> off]
NaiveDate(local) == [kind |-> "naive", local |-> local, off |-> 0]

_parse_rss_datetime(pub_date_str) ==
    CASE pub_date_str.kind = "blank" -> NoneDt
      [] pub_date_str.kind = "bad" -> NoneDt
      [] pub_date_str.kind = "naive" -> Dt(pub_date_str.local, 0)
      [] OTHER -> Dt(pub_date_str.local - pub_date_str.off, pub_date_str.off)

(* ------------------------- feed payloads ------------------------------- *)
\* A child element of an <item>/<entry> node.  ns: its tag carries a
\* namespace; kids: it has child elements; flat: its text with that of its
\* descendants (ElementTree.tostring(.., method="text")); href: attribute.
NoEl == [present |-> FALSE, ns |-> FALSE, kids |-> FALSE,
         text |-> <<>>, flat |-> <<>>, href |-> <<>>]
El(ns, kids, text, flat, href) ==
    [present |-> TRUE, ns |-> ns, kids |-> kids,
     text |-> text, flat |-> flat, href |-> href]
NoDateEl == [present |-> FALSE, ns |-> FALSE, kids |-> FALSE, text |-> BlankDate]
DateEl(ns, kids, text) == [present |-> TRUE, ns |-> ns, kids |-> kids, text |-> text]

\* node.find(".//{*}tag"): the element in any namespace or in none
FindWild(el, none) == IF el.present THEN el ELSE none
\* node.find("tag"): the element only when its tag has no namespace
FindPlain(el, none) == IF el.present /\ ~el.ns THEN el ELSE none
\* bool(element): an Element without children is falsy
Truthy(el) == el.present /\ el.kids
\* a or b
PyOr(a, b) == IF Truthy(a) THEN a ELSE b

title_el(node) == PyOr(FindWild(node.title, NoEl), FindPlain(node.title, NoEl))
link_el(node) == PyOr(FindWild(node.link, NoEl), FindPlain(node.link, NoEl))
desc_el(node) ==
    PyOr(FindWild(node.description, NoEl),
    PyOr(FindPlain(node.description, NoEl),
    PyOr(FindWild(node.summary, NoEl),
    PyOr(FindPlain(node.summary, NoEl),
    PyOr(FindWild(node.content, NoEl), FindPlain(node.content, NoEl))))))
pub_el(node) ==
    PyOr(FindWild(node.pubDate, NoDateEl),
    PyOr(FindPlain(node.pubDate, NoDateEl),
    PyOr(FindWild(node.published, NoDateEl),
    PyOr(FindPlain(node.published, NoDateEl),
    PyOr(FindWild(node.updated, NoDateEl), FindPlain(node.updated, NoDateEl))))))

ItemTitle(node) == IF title_el(node).present THEN Strip(title_el(node).text) ELSE <<>>
ItemLink(node) ==
    LET el == link_el(node)
        link == IF el.present THEN Strip(el.text) ELSE <<>>
    IN  IF link = <<>> /\ el.present THEN el.href ELSE link
ItemSummary(node) ==
    LET el == desc_el(node)
        summary == IF el.present THEN Strip(el.text) ELSE <<>>
    IN  IF summary = <<>> /\ el.present /\ el.kids
        THEN Truncate(Strip(el.flat), SUMMARY_LIMIT)
        ELSE summary
ItemDate(node) ==
    _parse_rss_datetime(IF pub_el(node).present THEN pub_el(node).text ELSE BlankDate)

\* NodeItems with the cutoff test pub_dt < after
NodeItems_Inclusive(node, after) ==
    LET pub_dt == ItemDate(node) IN
    IF ~pub_dt.some \/ pub_dt.t < after.t THEN <<>>
    ELSE IF ItemTitle(node) = <<>> THEN <<>>
    ELSE << [title |-> ItemTitle(node), link |-> ItemLink(node),
             summary |-> ItemSummary(node),
             published_at |-> isoformat(pub_dt), dt |-> pub_dt] >>

\* the body of the loop over root.iter(): the items one node contributes
NodeItems(node, after) ==
    LET pub_dt == ItemDate(node) IN
    IF ~pub_dt.some \/ pub_dt.t <= after.t THEN <<>>
    ELSE IF ItemTitle(node) = <<>> THEN <<>>
    ELSE << [title |-> ItemTitle(node), link |-> ItemLink(node),
             summary |-> ItemSummary(node),
             published_at |-> isoformat(pub_dt), dt |-> pub_dt] >>

RECURSIVE IterNodes(_, _)
IterNodes(nodes, after) ==
    IF nodes = <<>> THEN <<>>
    ELSE NodeItems(Head(nodes), after) \o IterNodes(Tail(nodes), after)

\* resp: what urlopen and ElementTree.fromstring made of the url; ok is
\* FALSE when the transport or the XML parse failed
_fetch_rss_items(resp, after) == IF ~resp.ok THEN <<>> ELSE IterNodes(resp.nodes, after)

_get_cutoff(last_fetch_time, clock) ==
    IF ~last_fetch_time.null THEN fromisoformat(last_fetch_time)
    ELSE Dt(clock - DEFAULT_CUTOFF_HOURS, 0)

(* --------------------------- deduplication ----------------------------- *)
\* key = (it.get("link") or "").strip() or it.get("title", "")
Key(it) == IF Strip(it.link) # <<>> THEN Strip(it.link) ELSE it.title

KeyIndex(by_link, key) ==
    IF \E i \in 1..Len(by_link) : Key(by_link[i]) = key
    THEN CHOOSE i \in 1..Len(by_link) : Key(by_link[i]) = key
    ELSE 0

\* DedupeStep with the comparison <= : on a tie the later-seen item wins
DedupeStep_LastWins(by_link, it) ==
    LET key == Key(it)
        i == KeyIndex(by_link, key)
    IN  IF key = <<>> THEN by_link
        ELSE IF i = 0 THEN Append(by_link, it)
        ELSE IF it.dt.some /\ by_link[i].dt.t <= it.dt.t
             THEN [by_link EXCEPT ![i] = it]
             ELSE by_link

\* one iteration of the loop over all_items; by_link is the dict's values
\* in insertion order (assigning to an existing key keeps its position)
DedupeStep(by_link, it) ==
    LET key == Key(it)
        i == KeyIndex(by_link, key)
    IN  IF key = <<>> THEN by_link
        ELSE IF i = 0 THEN Append(by_link, it)
        ELSE IF it.dt.some /\ by_link[i].dt.t < it.dt.t
             THEN [by_link EXCEPT ![i] = it]
             ELSE by_link

RECURSIVE DedupeFrom(_, _)
DedupeFrom(by_link, items) ==
    IF items = <<>> THEN by_link
    ELSE DedupeFrom(DedupeStep(by_link, Head(items)), Tail(items))

Dedupe(all_items) == DedupeFrom(<<>>, all_items)

(* ----------------------------- latest_time ----------------------------- *)
\* LatestFrom without the comparison of lines 142-144: the date seen last
RECURSIVE LatestFrom_LastSeen(_, _)
LatestFrom_LastSeen(latest_time, items) ==
    IF items = <<>> THEN latest_time
    ELSE LatestFrom_LastSeen(Head(items).dt, Tail(items))

\* max(latest_time, pub_dt) returns its first argument on a tie
RECURSIVE LatestFrom(_, _)
LatestFrom(latest_time, items) ==
    IF items = <<>> THEN latest_time
    ELSE LET pub_dt == Head(items).dt
             nxt == IF ~pub_dt.some THEN latest_time
                    ELSE IF ~latest_time.some THEN pub_dt
                    ELSE IF pub_dt.t > latest_time.t THEN pub_dt ELSE latest_time
         IN  LatestFrom(nxt, Tail(items))

LatestTime(items) == LatestFrom(NoneDt, items)

(* ------------------------------- scoring ------------------------------- *)
\* what score_article did for one item: it raised, or returned value
Raised == [raised |-> TRUE, value |-> 0]
Returned(v) == [raised |-> FALSE, value |-> v]

\* ScoreOf had a raising scorer been counted as a passing score
ScoreOf_RaisedPasses(outcome) == IF outcome.raised THEN SCORE_THRESHOLD + 1 ELSE outcome.value

\* lines 149-152: the score returned, 0 when score_article raised
ScoreOf(outcome) == IF outcome.raised THEN 0 ELSE outcome.value

\* the scoring loop: outcomes[i] is the scorer's behaviour on items[i]
RECURSIVE ScoreFrom(_, _, _, _)
ScoreFrom(articles, items, outcomes, i) ==
    IF i > Len(items) THEN articles
    ELSE LET it == items[i]
             score == ScoreOf(outcomes[i])
         IN  IF score <= SCORE_THRESHOLD
             THEN ScoreFrom(articles, items, outcomes, i + 1)
             ELSE ScoreFrom(Append(articles,
                                   [title |-> it.title, link |-> it.link,
                                    summary |-> it.summary,
                                    published_at |-> it.published_at,
                                    score |-> score]),
                            items, outcomes, i + 1)

(* ------------------------------- files --------------------------------- *)
\* database.json: absent, truncated/partly written (not valid JSON), or a
\* complete record
MissingDb == [kind |-> "missing", last_fetch_time |-> NullStr, articles |-> <<>>]
TornDb == [kind |-> "torn", last_fetch_time |-> NullStr, articles |-> <<>>]
DefaultDb == [kind |-> "ok", last_fetch_time |-> NullStr, articles |-> <<>>]
OkDb(last_fetch_time, articles) ==
    [kind |-> "ok", last_fetch_time |-> last_fetch_time, articles |-> articles]

\* _load_json: FileNotFoundError and JSONDecodeError give the default
_load_json(file, default) == IF file.kind = "ok" THEN file ELSE default

\* status.json is "missing", "torn" (truncated, not yet rewritten), "on" or
\* "off"; bool(status.get("is_running", False)) of what _load_json returns
IsRunning(file) == file = "on"

(* ---------------------------- feed inputs ------------------------------ *)
SeqsUpTo(S, n) == UNION { [1..k -> S] : k \in 0..n }

Plain(text) == El(FALSE, FALSE, text, text, <<>>)

\* <entry> with un-namespaced title, link, content and updated children
EntryNode(title, link, body, date) ==
    [title |-> Plain(title),
     link |-> IF link = <<>> THEN NoEl ELSE Plain(link),
     description |-> NoEl, summary |-> NoEl, content |-> Plain(body),
     pubDate |-> NoDateEl, published |-> NoDateEl,
     updated |-> DateEl(FALSE, FALSE, date)]

\* RSS 2.0 <item> with title, link, description and pubDate children
RssNode(title, link, body, date) ==
    [title |-> Plain(title), link |-> Plain(link),
     description |-> Plain(body), summary |-> NoEl, content |-> NoEl,
     pubDate |-> DateEl(FALSE, FALSE, date), published |-> NoDateEl,
     updated |-> NoDateEl]

CycleNodes ==
    { EntryNode(<<"a">>, <<"x">>, <<"s">>, RfcDate(1, 0)),
      EntryNode(<<"b">>, <<" ", "x">>, <<"t">>, RfcDate(2, 1)),
      EntryNode(<<"a">>, <<"x">>, <<"t">>, RfcDate(1, 1)),
      EntryNode(<<"c">>, <<>>, <<"s">>, NaiveDate(2)),
      RssNode(<<"a">>, <<"y">>, <<"s">>, RfcDate(2, 0)) }

FailedResponse == [ok |-> FALSE, nodes |-> <<>>]
Responses(nodes) ==
    {FailedResponse} \cup { [ok |-> TRUE, nodes |-> q] : q \in SeqsUpTo(nodes, MaxFeedLen) }

ScoreOutcomes == {Raised, Returned(0), Returned(SCORE_THRESHOLD), Returned(SCORE_THRESHOLD + 1)}

(* ------------------------------- state --------------------------------- *)
VARIABLES
    statusFile,       \* status.json
    dbFile,           \* database.json
    clock,            \* datetime.now(timezone.utc), in hours
    uiStatusPending,  \* the panel's write of status.json in progress
    uiDbPc,           \* the panel's load_database(): "idle", "saw_missing", "saw_torn"
    was_running,      \* main's remembered state
    loopPc,           \* main: "poll" (about to read status.json) or "in_task"
    cyclePc,          \* run_task: "idle", "load", "fetch", "fetch2", "dedupe",
                      \*           "score", "save", "dump", "done", "except"
    last_fetch, articles, cutoff, all_items, latest_time,  \* _run_task_impl locals
    dbAtStart,        \* history: the database when the cycle in flight was started
    cycles,           \* history: run_task invocations so far
    inFlight,         \* history: run_task invocations begun and not returned
    polledInFlight,   \* history: a poll read the switch during a cycle
    lastPoll,         \* history: the latest poll
    streak,           \* history: consecutive polls that read is_running = true
    streakRuns,       \* history: cycles started by the polls of the streak
    act,              \* history: the switch's current activation
    ghost,            \* history, kept when ghost.on: the cutoff of the latest cycle
                      \* if it failed, and the items successful cycles have merged
    probe             \* inputs of the pure-function specifications

files == <<statusFile, dbFile>>
ui == <<uiStatusPending, uiDbPc>>
locals == <<last_fetch, articles, cutoff, all_items, latest_time, dbAtStart>>
pollHist == <<lastPoll, streak, streakRuns>>
worker == <<was_running, loopPc, cyclePc, cycles, inFlight, polledInFlight>>
vars == <<statusFile, dbFile, clock, uiStatusPending, uiDbPc, was_running, loopPc,
          cyclePc, last_fetch, articles, cutoff, all_items, latest_time, dbAtStart,
          cycles, inFlight, polledInFlight, lastPoll, streak, streakRuns, act, ghost, probe>>

NoPoll == [obs |-> FALSE, was |-> FALSE, started |-> FALSE, err |-> FALSE, afterErr |-> FALSE]
NoAct == [state |-> "none", runs |-> 0, err |-> FALSE, polled |-> FALSE, fresh |-> FALSE]
NoGhost == [on |-> FALSE, failedCutoff |-> NoneDt, seen |-> {}]
NoProbe == [resp |-> FailedResponse, after |-> NoneDt, items |-> <<>>, outcomes |-> <<>>]

\* everything but run_task's position and the probe
Quiet ==
    /\ statusFile = "missing"
    /\ dbFile = MissingDb
    /\ clock = NowStart
    /\ uiStatusPending = "none"
    /\ uiDbPc = "idle"
    /\ was_running = FALSE
    /\ loopPc = "poll"
    /\ last_fetch = NullStr
    /\ articles = <<>>
    /\ cutoff = NoneDt
    /\ all_items = <<>>
    /\ latest_time = NoneDt
    /\ dbAtStart = DefaultDb
    /\ cycles = 0
    /\ inFlight = 0
    /\ polledInFlight = FALSE
    /\ lastPoll = NoPoll
    /\ streak = 0
    /\ streakRuns = 0
    /\ act = NoAct

Init ==
    /\ Quiet
    /\ ghost = NoGhost
    /\ cyclePc = "idle"
    /\ probe = NoProbe

Min(a, b) == IF a < b THEN a ELSE b

(* ------------------------ the control panel ---------------------------- *)
\* load_status() -> _read_json: status.json does not exist, so the default
\* is written; write_text creates the file empty before it fills it
UILoadStatusCreate ==
    /\ statusFile = "missing"
    /\ uiStatusPending = "none"
    /\ statusFile' = "torn"
    /\ uiStatusPending' = "off"
    /\ UNCHANGED <<dbFile, clock, uiDbPc, worker, locals, pollHist, act, probe, ghost>>

\* render_dashboard: the operator moved the toggle, save_status(updated_state)
\* opens status.json for writing, which truncates it
UISaveStatusOpen ==
    /\ uiStatusPending = "none"
    /\ statusFile \in {"on", "off"}
    /\ statusFile' = "torn"
    /\ uiStatusPending' = (IF statusFile = "on" THEN "off" ELSE "on")
    /\ act' = IF statusFile = "on" THEN [act EXCEPT !.state = "ended"] ELSE act
    /\ UNCHANGED <<dbFile, clock, uiDbPc, worker, locals, pollHist, probe, ghost>>

\* write_text writes the JSON text and closes the file
UISaveStatusWrite ==
    /\ uiStatusPending # "none"
    /\ statusFile' = uiStatusPending
    /\ uiStatusPending' = "none"
    /\ act' = IF uiStatusPending = "on"
              THEN [state |-> "active", runs |-> 0, err |-> FALSE, polled |-> FALSE,
                    fresh |-> (~lastPoll.obs /\ loopPc = "poll")]
              ELSE act
    /\ UNCHANGED <<dbFile, clock, uiDbPc, worker, locals, pollHist, probe, ghost>>

\* load_database() -> _read_json: path.exists() and read_text/json.loads
UIReadDb ==
    /\ uiDbPc = "idle"
    /\ uiDbPc' = CASE dbFile.kind = "missing" -> "saw_missing"
                   [] dbFile.kind = "torn" -> "saw_torn"
                   [] OTHER -> "idle"
    /\ UNCHANGED <<files, clock, uiStatusPending, worker, locals, pollHist, act, probe, ghost>>

\* _read_json: path.write_text(json.dumps(default)) after a missing or
\* undecodable file
UIWriteDefault ==
    /\ uiDbPc \in {"saw_missing", "saw_torn"}
    /\ dbFile' = DefaultDb
    /\ uiDbPc' = "idle"
    /\ UNCHANGED <<statusFile, clock, uiStatusPending, worker, locals, pollHist, act, probe, ghost>>

(* ------------------------------ main ----------------------------------- *)
\* PollNext as a level-triggered loop would have it: a cycle at every poll
\* that reads is_running = true
PollNext_Level(is_running, was) ==
    IF ~is_running THEN [start |-> FALSE, was |-> FALSE]
    ELSE [start |-> ~was \/ TRUE, was |-> was]

\* PollNext without line 179: a poll that reads false leaves was_running
PollNext_NoReset(is_running, was) ==
    IF ~is_running THEN [start |-> FALSE, was |-> was]
    ELSE IF ~was THEN [start |-> TRUE, was |-> was]
    ELSE [start |-> FALSE, was |-> TRUE]

\* lines 176-185: what one iteration does with the value it read
PollNext(is_running, was) ==
    IF ~is_running THEN [start |-> FALSE, was |-> FALSE]
    ELSE IF ~was THEN [start |-> TRUE, was |-> was]
    ELSE [start |-> FALSE, was |-> TRUE]

\* RunTaskCallPc had run_task been started without waiting for it
RunTaskCallPc_Detached == "poll"

\* line 184 is a plain call: main waits in it until run_task returns
RunTaskCallPc == "in_task"

\* one iteration of the while loop whose read of status.json succeeds
Poll ==
    /\ loopPc = "poll"
    /\ LET is_running == IsRunning(statusFile)
           nxt == PollNext(is_running, was_running)
           n == IF nxt.start THEN 1 ELSE 0
       IN  /\ nxt.start => cycles < MaxCycles
           /\ was_running' = nxt.was
           /\ IF nxt.start
              THEN /\ loopPc' = RunTaskCallPc
                   /\ cyclePc' = "load"
                   /\ dbAtStart' = _load_json(dbFile, DefaultDb)
              ELSE UNCHANGED <<loopPc, cyclePc, dbAtStart>>
           /\ cycles' = cycles + n
           /\ inFlight' = inFlight + n
           /\ polledInFlight' = (polledInFlight \/ inFlight > 0)
           /\ lastPoll' = [obs |-> is_running, was |-> was_running, started |-> nxt.start,
                            err |-> FALSE, afterErr |-> lastPoll.err]
           /\ streak' = IF is_running THEN Min(streak + 1, MaxStreak) ELSE 0
           /\ streakRuns' = (IF is_running THEN streakRuns ELSE 0) + n
           /\ act' = IF act.state = "active"
                     THEN [act EXCEPT !.polled = TRUE, !.runs = Min(@ + n, 2)]
                     ELSE act
    /\ UNCHANGED <<files, clock, ui, last_fetch, articles, cutoff, all_items, latest_time,
                   probe, ghost>>

\* PollErrorWas had the handler of line 186 left was_running alone
PollErrorWas_Keep(was) == was

\* line 187: the handler forgets the remembered state
PollErrorWas(was) == FALSE

\* PollErrorPc had the loop body not been wrapped in try/except: the
\* exception leaves main and the process ends
PollErrorPc_Propagate == "stopped"

\* lines 186-188: the handler ends in the sleep of line 188 and the while
\* loop goes round again
PollErrorPc == "poll"

\* an iteration in which reading status.json raises (lines 186-187)
PollError ==
    /\ loopPc = "poll"
    /\ was_running' = PollErrorWas(was_running)
    /\ loopPc' = PollErrorPc
    /\ lastPoll' = [NoPoll EXCEPT !.err = TRUE]
    /\ streak' = 0
    /\ streakRuns' = 0
    /\ act' = IF act.state = "active" THEN [act EXCEPT !.err = TRUE] ELSE act
    /\ UNCHANGED <<files, clock, ui, cyclePc, cycles, inFlight, polledInFlight,
                   locals, probe, ghost>>

\* time passes
Tick ==
    /\ clock < NowStart + MaxClock
    /\ clock' = clock + 1
    /\ UNCHANGED <<files, ui, worker, locals, pollHist, act, probe, ghost>>

(* --------------------------- _run_task_impl ---------------------------- *)
\* the history of cycles: a cycle failed having computed the cutoff after
Failed(g, after) == IF g.on THEN [g EXCEPT !.failedCutoff = after] ELSE g

\* the history of cycles: a cycle wrote its snapshot having merged items
Succeeded(g, items) ==
    IF g.on
    THEN [g EXCEPT !.failedCutoff = NoneDt,
                   !.seen = @ \cup { <<Key(items[i]), items[i].published_at>> : i \in 1..Len(items) }]
    ELSE g

history == <<cycles, inFlight, polledInFlight, pollHist, act, probe>>

\* lines 123-126
CycleLoad ==
    /\ cyclePc = "load"
    /\ LET db == _load_json(dbFile, DefaultDb) IN
       /\ last_fetch' = db.last_fetch_time
       /\ articles' = db.articles
       /\ cutoff' = _get_cutoff(db.last_fetch_time, clock)
    /\ cyclePc' = "fetch"
    /\ UNCHANGED <<files, clock, ui, was_running, loopPc, all_items, latest_time,
                   dbAtStart, history, ghost>>

\* FetchRaises had _fetch_rss_items let a transport or parse failure out
FetchRaises_Propagate(resp) == ~resp.ok

\* lines 59-60 and 64-65: both failures are caught inside _fetch_rss_items
FetchRaises(resp) == FALSE

\* lines 129-130: one iteration of the loop over (COINDESK_RSS, THEBLOCK_RSS),
\* the url answered by one of the responses of pool
CycleFetchFrom(pool) ==
    /\ cyclePc \in {"fetch", "fetch2"}
    /\ \E resp \in pool :
         IF FetchRaises(resp)
         THEN /\ cyclePc' = "except"
              /\ UNCHANGED all_items
         ELSE /\ cyclePc' = (IF cyclePc = "fetch" THEN "fetch2" ELSE "dedupe")
              /\ all_items' = all_items \o _fetch_rss_items(resp, cutoff)
    /\ UNCHANGED <<files, clock, ui, was_running, loopPc, last_fetch, articles, cutoff,
                   latest_time, dbAtStart, history, ghost>>

\* lines 132-144: dedupe by key, then latest_time
CycleDedupe ==
    /\ cyclePc = "dedupe"
    /\ all_items' = Dedupe(all_items)
    /\ latest_time' = LatestTime(all_items')
    /\ cyclePc' = "score"
    /\ UNCHANGED <<files, clock, ui, was_running, loopPc, last_fetch, articles, cutoff,
                   dbAtStart, history, ghost>>

\* lines 146-161, the scorer behaving on each item in one of the ways of outs
CycleScoreFrom(outs) ==
    /\ cyclePc = "score"
    /\ \E outcomes \in [1..Len(all_items) -> outs] :
         articles' = ScoreFrom(articles, all_items, outcomes, 1)
    /\ cyclePc' = "save"
    /\ UNCHANGED <<files, clock, ui, was_running, loopPc, last_fetch, cutoff, all_items,
                   latest_time, dbAtStart, history, ghost>>

CycleFetch == CycleFetchFrom(Responses(CycleNodes))

CycleScore == CycleScoreFrom(ScoreOutcomes)

\* NewLast had line 163 kept a last_fetch_time once there is one
NewLast_KeepOld(latest, last) ==
    IF ~last.null THEN last ELSE IF latest.some THEN isoformat(latest) ELSE last

\* line 163
NewLast(latest, last) == IF latest.some THEN isoformat(latest) ELSE last

\* _save_json line 35: open(path, "w") truncates database.json
SaveOpen ==
    /\ cyclePc = "save"
    /\ dbFile' = TornDb
    /\ cyclePc' = "dump"
    /\ UNCHANGED <<statusFile, clock, ui, was_running, loopPc, locals, history, ghost>>

\* _save_json line 36: json.dump writes the record and the file is closed
SaveDump ==
    /\ cyclePc = "dump"
    /\ dbFile' = OkDb(NewLast(latest_time, last_fetch), articles)
    /\ cyclePc' = "done"
    /\ ghost' = Succeeded(ghost, all_items)
    /\ UNCHANGED <<statusFile, clock, ui, was_running, loopPc, locals, history>>

\* _save_json line 36: json.dump or a write raises part-way; what was
\* written so far stays in the file
SaveFail ==
    /\ cyclePc = "dump"
    /\ dbFile' = TornDb
    /\ cyclePc' = "except"
    /\ ghost' = Failed(ghost, cutoff)
    /\ UNCHANGED <<statusFile, clock, ui, was_running, loopPc, locals, history>>

\* any exception raised in lines 123-164 before the file is opened
CycleError ==
    /\ cyclePc \in {"load", "fetch", "fetch2", "dedupe", "score", "save"}
    /\ cyclePc' = "except"
    /\ ghost' = Failed(ghost, cutoff)
    /\ UNCHANGED <<files, clock, ui, was_running, loopPc, locals, history>>

\* run_task returns (lines 117-119) and main goes on at line 185
RunTaskReturn ==
    /\ cyclePc \in {"done", "except"}
    /\ cyclePc' = "idle"
    /\ inFlight' = inFlight - 1
    /\ was_running' = TRUE
    /\ loopPc' = "poll"
    /\ last_fetch' = NullStr
    /\ articles' = <<>>
    /\ cutoff' = NoneDt
    /\ all_items' = <<>>
    /\ latest_time' = NoneDt
    /\ dbAtStart' = DefaultDb
    /\ UNCHANGED <<files, clock, ui, cycles, polledInFlight, pollHist, act, probe, ghost>>

(* --------------------------- specifications ---------------------------- *)
\* the worker and the operator's switch
NextWorker ==
    \/ Poll
    \/ PollError
    \/ CycleLoad
    \/ CycleFetch
    \/ CycleDedupe
    \/ CycleScore
    \/ SaveOpen
    \/ SaveDump
    \/ SaveFail
    \/ CycleError
    \/ RunTaskReturn
    \/ UILoadStatusCreate
    \/ UISaveStatusOpen
    \/ UISaveStatusWrite
    \/ Tick

\* the worker and the whole control panel
Next ==
    \/ NextWorker
    \/ UIReadDb
    \/ UIWriteDefault

Spec == Init /\ [][Next]_vars

SpecWorker == Init /\ [][NextWorker]_vars

(* ------------------------------ claims --------------------------------- *)
\* C1: a poll starts a cycle exactly when it reads is_running = true while
\* was_running is false; so in a run of consecutive polls that all read
\* true, with no read error in between, exactly one cycle is started, by
\* the first of them.
C1_EdgeTriggered ==
    /\ lastPoll.started <=> (lastPoll.obs /\ ~lastPoll.was)
    /\ streak >= 1 => streakRuns = 1
    /\ streak = 0 => streakRuns = 0

C1_Witness == streak = MaxStreak /\ streakRuns = 1 /\ cycles = 1

\* C2 as stated: every OFF->ON transition of the switch has had exactly one
\* run_task invocation by the time the switch is moved again.
C2_ExactlyOncePerTransition == act.state = "ended" => act.runs = 1

\* C2 as amended: during one activation of the switch (from the OFF->ON
\* write until the switch is next written) run_task is invoked only by polls
\* that read the switch in that time: never if no poll read it, never if the
\* worker's latest poll before the transition had read ON or a cycle was in
\* flight (and no read error followed), and exactly once if a poll read it,
\* no poll raised, and the worker's latest poll before the transition had not
\* read ON with no cycle in flight.
C2_OncePerObservedActivation ==
    act.state # "none" =>
        /\ ~act.polled => act.runs = 0
        /\ (~act.err /\ ~act.fresh) => act.runs = 0
        /\ (~act.err /\ act.fresh /\ act.polled) => act.runs = 1

C2_Witness ==
    /\ act.state = "ended"
    /\ act.fresh /\ act.polled /\ ~act.err
    /\ act.runs = 1
    /\ cycles = 2

\* C3: at most one run_task invocation is in flight, and while one is in
\* flight main is inside the call: no poll reads the switch and no second
\* run_task starts, whatever happens to the switch meanwhile.
C3_OneCycleInFlight ==
    /\ inFlight <= 1
    /\ ~polledInFlight
    /\ cyclePc # "idle" => (inFlight = 1 /\ loopPc = "in_task")

C3_Witness == inFlight = 1 /\ cyclePc = "dump" /\ statusFile = "off" /\ cycles = 2

\* the database as _load_json reads it
DbView(file) == _load_json(file, DefaultDb)

\* last_fetch_time a is not later than b (null is earlier than any time)
LftLeq(a, b) ==
    \/ a.null
    \/ ~b.null /\ fromisoformat(a).t <= fromisoformat(b).t

IsPrefix(p, q) == Len(p) <= Len(q) /\ SubSeq(q, 1, Len(p)) = p

\* C4: when a cycle ends, however it ends, the persisted last_fetch_time is
\* not earlier than the one persisted when the cycle started.
C4_LastFetchNonDecreasing ==
    cyclePc \in {"done", "except"} =>
        LftLeq(dbAtStart.last_fetch_time, DbView(dbFile).last_fetch_time)

\* C5: when a cycle ends, however it ends, the articles persisted when it
\* started are a prefix of the persisted articles.
C5_ArticlesAppendOnly ==
    cyclePc \in {"done", "except"} =>
        IsPrefix(dbAtStart.articles, DbView(dbFile).articles)

\* C6: a reader of database.json never finds it empty or partly written.
C6_ReadersSeeWholeSnapshot == uiDbPc # "saw_torn"

\* C7: a cycle that ended in an error leaves the database exactly as it
\* was when the cycle started.
C7_FailedCycleChangesNothing == cyclePc = "except" => DbView(dbFile) = dbAtStart

\* C8: every write of database.json is a step of the worker's _save_json.
C8_OnlyWorkerWritesDb == [][dbFile' # dbFile => cyclePc \in {"save", "dump"}]_vars

(* ------------------- _fetch_rss_items on its own ----------------------- *)
Range(q) == { q[i] : i \in 1..Len(q) }

FetchNodes ==
    { [title |-> t, link |-> Plain(<<"x">>),
       description |-> NoEl, summary |-> NoEl, content |-> Plain(<<"s">>),
       pubDate |-> p, published |-> NoDateEl, updated |-> u] :
      t \in {Plain(<<"a">>), Plain(<<" ">>)},
      p \in {NoDateEl, DateEl(FALSE, FALSE, RfcDate(1, 0)), DateEl(FALSE, TRUE, RfcDate(2, 0))},
      u \in {NoDateEl, DateEl(FALSE, FALSE, RfcDate(1, 1)), DateEl(FALSE, FALSE, NaiveDate(2)),
             DateEl(TRUE, FALSE, RfcDate(2, 0)), DateEl(FALSE, FALSE, BadDate)} }

FetchCutoffs == { Dt(t, 0) : t \in 0..2 }

InitFetch ==
    /\ Quiet
    /\ ghost = NoGhost
    /\ cyclePc = "probe_fetch"
    /\ probe \in { [resp |-> r, after |-> c, items |-> <<>>, outcomes |-> <<>>] :
                   r \in {FailedResponse} \cup
                         { [ok |-> TRUE, nodes |-> q] : q \in SeqsUpTo(FetchNodes, MaxProbeLen) },
                   c \in FetchCutoffs }

FetchApply ==
    /\ cyclePc = "probe_fetch"
    /\ all_items' = _fetch_rss_items(probe.resp, probe.after)
    /\ cyclePc' = "probe_fetched"
    /\ UNCHANGED <<files, clock, ui, was_running, loopPc, last_fetch, articles, cutoff,
                   latest_time, dbAtStart, history, ghost>>

SpecFetch == InitFetch /\ [][FetchApply]_vars

\* the dates a node carries in its pubDate, published and updated children
NodeDates(node) ==
    { _parse_rss_datetime(e.text) :
      e \in { d \in {node.pubDate, node.published, node.updated} : d.present } }

HasFreshDate(node, after) == \E d \in NodeDates(node) : d.some /\ d.t > after.t

\* C9: every item _fetch_rss_items returns has a date that one of the
\* payload's nodes carries, that parsed, and that is strictly later than the
\* cutoff; a node whose dates are all missing, unparseable or not later
\* than the cutoff contributes no item.
C9_FetchOnlyFresh ==
    cyclePc = "probe_fetched" =>
        LET nodes == probe.resp.nodes IN
        /\ \A i \in 1..Len(all_items) :
             /\ all_items[i].dt.some
             /\ all_items[i].dt.t > probe.after.t
             /\ \E j \in 1..Len(nodes) :
                  /\ HasFreshDate(nodes[j], probe.after)
                  /\ all_items[i].dt \in NodeDates(nodes[j])
                  /\ all_items[i].published_at = isoformat(all_items[i].dt)
        /\ Len(all_items) <= Cardinality({ j \in 1..Len(nodes) : HasFreshDate(nodes[j], probe.after) })

\* two nodes: the first dated exactly at the cutoff and dropped, the second
\* later than the cutoff and returned
C9_Witness ==
    /\ cyclePc = "probe_fetched"
    /\ Len(probe.resp.nodes) = 2
    /\ ~HasFreshDate(probe.resp.nodes[1], probe.after)
    /\ \E d \in NodeDates(probe.resp.nodes[1]) : d.some /\ d.t = probe.after.t
    /\ HasFreshDate(probe.resp.nodes[2], probe.after)
    /\ Len(all_items) = 1

(* --------------------- deduplication on its own ------------------------ *)
\* <entry> whose link is given by the href attribute of an empty element
HrefNode(title, href, body, date) ==
    [title |-> Plain(title), link |-> El(FALSE, FALSE, <<>>, <<>>, href),
     description |-> NoEl, summary |-> NoEl, content |-> Plain(body),
     pubDate |-> NoDateEl, published |-> NoDateEl,
     updated |-> DateEl(FALSE, FALSE, date)]

MergeNodes ==
    { EntryNode(<<"a">>, <<"x">>, <<"s">>, RfcDate(1, 0)),
      EntryNode(<<"b">>, <<"x">>, <<"t">>, RfcDate(2, 0)),
      EntryNode(<<"a">>, <<"x">>, <<"t">>, RfcDate(1, 1)),
      HrefNode(<<"a">>, <<" ", "x">>, <<"s">>, RfcDate(2, 1)),
      HrefNode(<<"b">>, <<" ">>, <<"t">>, RfcDate(1, 0)),
      EntryNode(<<"b">>, <<>>, <<"s">>, RfcDate(2, 0)),
      EntryNode(<<"a">>, <<>>, <<"s">>, RfcDate(1, 0)) }

\* the items _fetch_rss_items makes of these nodes
MergeItems == UNION { Range(NodeItems(n, Dt(0, 0))) : n \in MergeNodes }

InitMerge ==
    /\ Quiet
    /\ ghost = NoGhost
    /\ cyclePc = "probe_merge"
    /\ probe \in { [resp |-> FailedResponse, after |-> NoneDt, items |-> q, outcomes |-> <<>>] :
                   q \in SeqsUpTo(MergeItems, MaxMergeLen) }

\* lines 133-138 on the probe's items
MergeApply ==
    /\ cyclePc = "probe_merge"
    /\ all_items' = Dedupe(probe.items)
    /\ cyclePc' = "probe_merged"
    /\ UNCHANGED <<files, clock, ui, was_running, loopPc, last_fetch, articles, cutoff,
                   latest_time, dbAtStart, history, ghost>>

\* lines 146-161 on the merged items
MergeScore ==
    /\ cyclePc = "probe_merged"
    /\ \E outcomes \in [1..Len(all_items) -> ScoreOutcomes] :
         /\ articles' = ScoreFrom(articles, all_items, outcomes, 1)
         /\ probe' = [probe EXCEPT !.outcomes = outcomes]
    /\ cyclePc' = "probe_scored"
    /\ UNCHANGED <<files, clock, ui, was_running, loopPc, last_fetch, cutoff, all_items,
                   latest_time, dbAtStart, cycles, inFlight, polledInFlight, pollHist, act, ghost>>

SpecMerge == InitMerge /\ [][MergeApply \/ MergeScore]_vars

\* among the items q with identity key k: the first of those published latest
FirstLatest(q, k) ==
    CHOOSE i \in 1..Len(q) :
        /\ Key(q[i]) = k
        /\ \A j \in 1..Len(q) :
             Key(q[j]) = k =>
                 \/ q[j].dt.t < q[i].dt.t
                 \/ q[j].dt.t = q[i].dt.t /\ i <= j

ScenarioNodes ==
    { RssNode(<<"a">>, l, <<"s">>, RfcDate(NowStart - ago, off)) :
          l \in {<<"x">>, <<"y">>}, ago \in {2, DEFAULT_CUTOFF_HOURS - 1}, off \in {0, 1} }
    \cup
    { EntryNode(<<"a">>, l, <<"s">>, RfcDate(NowStart - ago, off)) :
          l \in {<<"x">>, <<"y">>}, ago \in {2, DEFAULT_CUTOFF_HOURS - 1}, off \in {0, 1} }

EmptyResponse == [ok |-> TRUE, nodes |-> <<>>]
ScenarioResponses ==
    {FailedResponse, EmptyResponse} \cup { [ok |-> TRUE, nodes |-> <<n>>] : n \in ScenarioNodes }

\* the scorer's answer in the scenario
ScenarioScores == {Raised, Returned(SCORE_THRESHOLD), Returned(SCORE_THRESHOLD + 5)}

\* probe.feeds: what the two urls answer at every fetch; probe.score: what
\* score_article does on every item
InitScenario ==
    /\ Quiet
    /\ ghost = NoGhost
    /\ cyclePc = "idle"
    /\ probe \in { [feeds |-> <<r1, r2>>, score |-> o] :
                   r1 \in ScenarioResponses, r2 \in ScenarioResponses, o \in ScenarioScores }

ScenarioFetch == CycleFetchFrom({probe.feeds[IF cyclePc = "fetch" THEN 1 ELSE 2]})

ScenarioScore == CycleScoreFrom({probe.score})

\* the worker and the switch, no step failing but the fetches of the probe
NextScenario ==
    \/ UILoadStatusCreate
    \/ UISaveStatusOpen
    \/ UISaveStatusWrite
    \/ Poll
    \/ CycleLoad
    \/ ScenarioFetch
    \/ CycleDedupe
    \/ ScenarioScore
    \/ SaveOpen
    \/ SaveDump
    \/ RunTaskReturn

SpecScenario == InitScenario /\ [][NextScenario]_vars

\* one url answers one <item> with title, link, description and an RFC-2822
\* pubDate of two hours ago, the other answers no entry, the scorer returns 85
IsItemScenario(p, node) ==
    /\ node \in { RssNode(<<"a">>, l, <<"s">>, RfcDate(NowStart - 2, off)) :
                     l \in {<<"x">>, <<"y">>}, off \in {0, 1} }
    /\ \/ p.feeds = << [ok |-> TRUE, nodes |-> <<node>>], EmptyResponse >>
       \/ p.feeds = << EmptyResponse, [ok |-> TRUE, nodes |-> <<node>>] >>
    /\ p.score = Returned(SCORE_THRESHOLD + 5)

\* C11: from the empty database (last_fetch_time null, so the cutoff is 24
\* hours before now), after the first cycle on the item scenario the
\* persisted articles are exactly that item with its score, and the
\* persisted last_fetch_time is the item's published_at.
C11_ItemScenarioPersisted ==
    \A node \in ScenarioNodes :
        (cycles = 1 /\ cyclePc = "done" /\ IsItemScenario(probe, node)) =>
            /\ dbFile.kind = "ok"
            /\ Len(dbFile.articles) = 1
            /\ dbFile.articles[1].title = Strip(node.title.text)
            /\ dbFile.articles[1].link = Strip(node.link.text)
            /\ dbFile.articles[1].summary = Strip(node.description.text)
            /\ dbFile.articles[1].published_at = isoformat(_parse_rss_datetime(node.pubDate.text))
            /\ dbFile.articles[1].score = SCORE_THRESHOLD + 5
            /\ dbFile.last_fetch_time = dbFile.articles[1].published_at

(* ------------------------ the loop keeps polling ----------------------- *)
\* feeds and scorer as in the scenario, of which each can fail
InitLive ==
    /\ Quiet
    /\ ghost = NoGhost
    /\ cyclePc = "idle"
    /\ probe \in { [feeds |-> <<r1, r2>>, score |-> o] :
                   r1 \in {FailedResponse,
                           [ok |-> TRUE,
                            nodes |-> <<EntryNode(<<"a">>, <<"x">>, <<"s">>, RfcDate(NowStart - 2, 0))>>]},
                   r2 \in {FailedResponse, EmptyResponse},
                   o \in {Raised, Returned(SCORE_THRESHOLD + 5)} }

\* the steps of the worker process itself, any of which can raise
WorkerStep ==
    \/ Poll
    \/ PollError
    \/ CycleLoad
    \/ ScenarioFetch
    \/ CycleDedupe
    \/ ScenarioScore
    \/ SaveOpen
    \/ SaveDump
    \/ SaveFail
    \/ CycleError
    \/ RunTaskReturn

NextLive ==
    \/ WorkerStep
    \/ UILoadStatusCreate
    \/ UISaveStatusOpen
    \/ UISaveStatusWrite
    \/ Tick

\* the interpreter keeps running the worker: sleeps end (lines 180, 188),
\* urlopen has a timeout (line 57), every loop of run_task is over a finite
\* list; nothing is assumed of the operator or of which steps raise
SpecLive == InitLive /\ [][NextLive]_vars /\ WF_vars(WorkerStep)

\* C12: whatever raises in a poll or in a cycle, main is never left: from
\* every reachable state the loop is again at its read of status.json.
C12_LoopPollsAgain == []<>(loopPc = "poll")

\* a cycle has failed while writing, a later read of status.json has raised,
\* and main is about to read status.json again
C12_Witness ==
    /\ loopPc = "poll"
    /\ lastPoll.err
    /\ dbFile = TornDb
    /\ cycles = 2

(* ----------------------------- read errors ----------------------------- *)
\* C13: a poll whose read of status.json raises leaves was_running false
\* and starts no cycle; and the poll after it starts a cycle if it reads
\* is_running = true, whatever was_running had been before the error.
C13_ReadErrorResetsEdge ==
    /\ lastPoll.err =>
           /\ ~was_running
           /\ ~lastPoll.started
           /\ loopPc = "poll" /\ cyclePc = "idle" /\ inFlight = 0
    /\ (lastPoll.afterErr /\ lastPoll.obs) => lastPoll.started

\* the switch has stayed on since it was turned on, a cycle of this
\* activation has run, a read then raised, and the next poll starts a
\* second cycle
C13_Witness ==
    /\ lastPoll.afterErr /\ lastPoll.obs /\ lastPoll.started
    /\ lastPoll.was = FALSE
    /\ act.state = "active" /\ act.err /\ act.runs = 2
    /\ cyclePc = "load"

(* ---------------------- what a cycle writes back ----------------------- *)
\* C14: when a cycle has written its snapshot, the persisted
\* last_fetch_time is the published_at of a merged item that no merged item
\* is later than, whatever the items scored; it is the last_fetch_time the
\* cycle loaded when nothing was merged.
C14_LastFetchIsLatestMerged ==
    cyclePc = "done" =>
        IF all_items = <<>>
        THEN dbFile.last_fetch_time = dbAtStart.last_fetch_time
        ELSE \E i \in 1..Len(all_items) :
                 /\ dbFile.last_fetch_time = all_items[i].published_at
                 /\ \A j \in 1..Len(all_items) : all_items[j].dt.t <= all_items[i].dt.t

\* two merged items: the earlier one scored above the threshold and was
\* appended, the later one was not, and last_fetch_time is the later one's
C14_Witness ==
    /\ cyclePc = "done"
    /\ Len(all_items) = 2
    /\ all_items[1].dt.t < all_items[2].dt.t
    /\ Len(dbFile.articles) = 1
    /\ dbFile.articles[1].published_at = all_items[1].published_at
    /\ dbFile.last_fetch_time = all_items[2].published_at
    /\ dbFile.last_fetch_time # all_items[1].published_at

(* -------------------------- scoring failures --------------------------- *)
\* the articles that were made of item it (merged items differ in title or link)
ArticlesOf(it) ==
    { n \in 1..Len(articles) : articles[n].title = it.title /\ articles[n].link = it.link }

\* C15: the scoring loop runs to its end whatever the scorer does on each
\* item; an item on which the scorer raised, or scored 80 or less, is not
\* appended; an item scored above 80 by a scorer that did not raise is
\* appended once with that score, wherever a raising item stands in the
\* list; so every appended article has an integer score above 80.
C15_ScorerFailureSkipsItem ==
    cyclePc = "probe_scored" =>
        /\ DOMAIN probe.outcomes = 1..Len(all_items)
        /\ \A i \in 1..Len(all_items) :
             LET o == probe.outcomes[i] IN
             IF o.raised \/ o.value <= SCORE_THRESHOLD
             THEN ArticlesOf(all_items[i]) = {}
             ELSE /\ Cardinality(ArticlesOf(all_items[i])) = 1
                  /\ \A n \in ArticlesOf(all_items[i]) : articles[n].score = o.value
        /\ \A n \in 1..Len(articles) :
             articles[n].score \in Int /\ articles[n].score > SCORE_THRESHOLD

\* three merged items: the scorer raised on the first, returned exactly 80
\* for the second and 81 for the third, which alone was appended
C15_Witness ==
    /\ cyclePc = "probe_scored"
    /\ Len(all_items) = 3
    /\ probe.outcomes[1] = Raised
    /\ probe.outcomes[2] = Returned(SCORE_THRESHOLD)
    /\ probe.outcomes[3] = Returned(SCORE_THRESHOLD + 1)
    /\ Len(articles) = 1
    /\ articles[1].title = all_items[3].title
    /\ articles[1].link = all_items[3].link
    /\ articles[1].score = SCORE_THRESHOLD + 1

(* --------------------------- a source fails ---------------------------- *)
\* the probe's score is above the threshold
ScorePasses(o) == ~o.raised /\ o.value > SCORE_THRESHOLD

\* C16: a url whose transport or parse fails contributes no item and does
\* not end the cycle: the cycle never takes its error exit, the fetched
\* items are those of the other url's payload, and the cycle goes on to
\* write a whole snapshot in which each of them is appended if and only if
\* it scored above the threshold and last_fetch_time is the latest of them.
C16_FailedSourceIsEmptyFeed ==
    /\ cyclePc # "except"
    /\ \A k \in 1..2 :
         ~probe.feeds[k].ok =>
             LET other == probe.feeds[3 - k].nodes IN
             /\ cyclePc \in {"dedupe", "score", "save", "dump", "done"} =>
                    /\ Len(all_items) <= Len(other)
                    /\ \A i \in 1..Len(all_items) :
                         \E j \in 1..Len(other) : <<all_items[i]>> = NodeItems(other[j], cutoff)
                    /\ \A j \in 1..Len(other) :
                         HasFreshDate(other[j], cutoff) /\ pub_el(other[j]).present
                             => Len(all_items) >= 1
             /\ cyclePc = "done" =>
                    /\ dbFile.kind = "ok"
                    /\ Len(dbFile.articles) = Len(dbAtStart.articles)
                           + (IF ScorePasses(probe.score) THEN Len(all_items) ELSE 0)
                    /\ all_items # <<>> =>
                           dbFile.last_fetch_time = all_items[Len(all_items)].published_at

\* the first url failed, the second answered an entry of two hours ago that
\* scored 85: the first cycle has persisted it
C16_Witness ==
    /\ cyclePc = "done" /\ cycles = 1
    /\ probe.feeds[1] = FailedResponse
    /\ probe.feeds[2].ok /\ Len(probe.feeds[2].nodes) = 1
    /\ probe.score = Returned(SCORE_THRESHOLD + 5)
    /\ Len(dbFile.articles) = 1
    /\ dbFile.articles[1].title = Strip(probe.feeds[2].nodes[1].title.text)
    /\ dbFile.articles[1].score = SCORE_THRESHOLD + 5
    /\ dbFile.last_fetch_time = isoformat(Dt(NowStart - 2, 1))

(* ------------------------- cycles after cycles ------------------------- *)
InitHistory ==
    /\ Quiet
    /\ ghost = [NoGhost EXCEPT !.on = TRUE]
    /\ cyclePc = "idle"
    /\ probe = NoProbe

\* the worker and the switch; the cycles follow each other within the hour,
\* so that the default cutoff of line 111 is the same for all of them
NextHistory ==
    \/ Poll
    \/ PollError
    \/ CycleLoad
    \/ CycleFetch
    \/ CycleDedupe
    \/ CycleScore
    \/ SaveOpen
    \/ SaveDump
    \/ SaveFail
    \/ CycleError
    \/ RunTaskReturn
    \/ UILoadStatusCreate
    \/ UISaveStatusOpen
    \/ UISaveStatusWrite

SpecHistory == InitHistory /\ [][NextHistory]_vars

\* C17: the cycle after a failed cycle computes the cutoff that the failed
\* cycle had computed (the failed cycle having left last_fetch_time and the
\* articles as they were).
C17_RetryUsesSameCutoff ==
    (cyclePc \in {"fetch", "fetch2", "dedupe", "score", "save", "dump"} /\ ghost.failedCutoff.some)
        => cutoff.t = ghost.failedCutoff.t

\* C20: an item that a cycle is about to score, or has scored, was not among
\* the merged items of an earlier cycle that wrote its snapshot (same
\* identity key, same published_at).
C20_ItemEvaluatedOnce ==
    cyclePc \in {"score", "save", "dump"} =>
        \A i \in 1..Len(all_items) :
            <<Key(all_items[i]), all_items[i].published_at>> \notin ghost.seen

(* ------------------------- the summary's length ------------------------ *)
Fill(n) == [i \in 1..n |-> "c"]

SummaryLengths == {0, 1, SUMMARY_LIMIT, SUMMARY_LIMIT + 1}

\* a description, summary or content element: without children its
\* flattened text is its direct text, with children it can be longer
SummaryEls ==
    {NoEl}
    \cup { El(FALSE, FALSE, Fill(n), Fill(n), <<>>) : n \in SummaryLengths }
    \cup UNION { { El(FALSE, TRUE, Fill(n), Fill(m), <<>>) :
                     m \in { k \in SummaryLengths : k >= n } } : n \in SummaryLengths }

SummaryNodes ==
    { [title |-> Plain(<<"a">>), link |-> Plain(<<"x">>),
       description |-> d, summary |-> NoEl, content |-> c,
       pubDate |-> NoDateEl, published |-> NoDateEl,
       updated |-> DateEl(FALSE, FALSE, RfcDate(1, 0))] :
      d \in SummaryEls, c \in SummaryEls }

InitSummary ==
    /\ Quiet
    /\ ghost = NoGhost
    /\ cyclePc = "probe_fetch"
    /\ probe \in { [resp |-> [ok |-> TRUE, nodes |-> <<n>>], after |-> c,
                    items |-> <<>>, outcomes |-> <<>>] :
                   n \in SummaryNodes, c \in FetchCutoffs }

SpecSummary == InitSummary /\ [][FetchApply]_vars

\* C18: every item _fetch_rss_items returns has a summary of at most 500
\* characters, whichever element it was taken from and whether from the
\* element's own text or from its flattened text.
C18_SummaryAtMostLimit ==
    cyclePc = "probe_fetched" =>
        \A i \in 1..Len(all_items) : Len(all_items[i].summary) <= SUMMARY_LIMIT

(* ------------------- articles and last_fetch_time ---------------------- *)
\* C19: in the database as it is read at any moment, after whatever cycles
\* ran and however they ended, every article's published_at is not later
\* than last_fetch_time, which is not null when there is an article.
C19_ArticlesNotAfterLastFetch ==
    LET db == DbView(dbFile) IN
    \A n \in 1..Len(db.articles) :
        /\ ~db.last_fetch_time.null
        /\ fromisoformat(db.articles[n].published_at).t <= fromisoformat(db.last_fetch_time).t

\* two cycles have each appended an article, the second one published later
\* than the first, and last_fetch_time is the second one's published_at
C19_Witness ==
    /\ cyclePc = "done" /\ cycles = 2
    /\ Len(dbAtStart.articles) = 1
    /\ Len(dbFile.articles) = 2
    /\ fromisoformat(dbFile.articles[1].published_at).t < fromisoformat(dbFile.articles[2].published_at).t
    /\ dbFile.last_fetch_time = dbFile.articles[2].published_at

====
